---- MODULE Spec2Model ----
(***************************************************************************)
(* A model of the payment reconciliation handler                           *)
(* (src/eventHandlers/WorkPeriodPaymentEventHandler.js, updateWorkPeriod   *)
(* and helper.postEvent) and of the duration calculator                    *)
(* (src/common/helper.js, calculateDuration).                              *)
(*                                                                         *)
(* Two specifications share the module:                                    *)
(*   Spec    - the reconciler: payment records are written by the payment  *)
(*             workflow, every write owes one event, passes of             *)
(*             updateWorkPeriod handle the events step by step (one step   *)
(*             per await of the handler).  Passes for one work period do   *)
(*             not overlap (the delivery layer's ordering guarantee).      *)
(*   DurSpec - the duration calculator applied to every input triple of    *)
(*             the bounded input domain.                                   *)
(***************************************************************************)
EXTENDS Integers, Sequences, FiniteSets, TLC

(***************************************************************************)
(* Bounds of the model.                                                    *)
(***************************************************************************)
MaxPayments == 2      \* payment records stored for one work period
MaxEvents == 2        \* payment events produced in one behaviour
MaxWeeks == 3         \* largest duration (weeks) fed to calculateDuration
MaxDay == 15          \* input dates range over days 0..MaxDay

(***************************************************************************)
(* Value domains.                                                          *)
(***************************************************************************)
WorkPeriodIds == {"wp1", "wp2"}
Procs == {1, 2}
PaymentStatusVocabulary == {"completed", "scheduled", "cancelled"}
DaysChoices == {1, 2}
AmountChoices == {100, 250}
WorkPeriodPaymentStatuses == {"pending", "partially-completed", "completed"}
PolicyNames == {"byDays", "sticky"}

\* app-constants.ActiveWorkPeriodPaymentStatuses: the statuses that count
ActiveWorkPeriodPaymentStatuses == {"completed", "scheduled"}

\* config.TAAS_WORK_PERIOD_UPDATE_TOPIC
TAAS_WORK_PERIOD_UPDATE_TOPIC == "taas.workperiod.update"

PaymentRecords ==
    [status : PaymentStatusVocabulary, days : DaysChoices, amount : AmountChoices]

VARIABLES
    payments,     \* payments[w]: the stored payment records of work period w
    db,           \* db[w]: the stored work period row (exists = FALSE: no row)
    policy,       \* which injected status policy is configured
    pending,      \* pending[w]: events of w delivered to no pass yet
    events,       \* number of events produced so far
    pc,           \* pc[p]: where pass p stands in updateWorkPeriod
    evt,          \* evt[p]: payload.value.workPeriodId of the event of pass p
    workPeriod,   \* workPeriod[p]: workPeriodModel.toJSON() as loaded by pass p
    data,         \* data[p]: the recomputed fields of pass p
    bus,          \* messages handed to the bus client, in order
    dispatched,   \* calls of eventDispatcher.handleEvent, in order
    lastPass,     \* lastPass[w]: the last completed pass of w
    serial,       \* TRUE: the delivery layer runs one pass of a period at a time
    overlap,      \* overlap[p]: pass p ran while another pass of its period ran
    failures,     \* the errors updateWorkPeriod threw to its caller, in order
    nPersist,     \* nPersist[w]: resolved workPeriodModel.update calls on w
    dinput,       \* the argument of calculateDuration
    dresult,      \* what calculateDuration returned or threw
    dpc,          \* "call" before, "done" after the call
    tz,           \* the time zone the process runs in (TZ)
    uoriginal,    \* the original argument of updateDuration
    upatch,       \* the data argument of updateDuration
    uresult,      \* what updateDuration returned or threw, and by which path
    upc           \* "call" before, "done" after the call

rvars == <<payments, db, policy, pending, events, pc, evt, workPeriod, data,
           bus, dispatched, lastPass, serial, overlap, failures, nPersist>>
uvars == <<uoriginal, upatch, uresult, upc>>
dvars == <<dinput, dresult, dpc, tz, uoriginal, upatch, uresult, upc>>
vars == <<payments, db, policy, pending, events, pc, evt, workPeriod, data,
          bus, dispatched, lastPass, serial, overlap, failures, nPersist,
          dinput, dresult, dpc, tz, uoriginal, upatch, uresult, upc>>

(***************************************************************************)
(* The payment aggregation of updateWorkPeriod: the _.each loop over       *)
(* workPeriod.payments, with data.daysPaid and data.paymentTotal as the    *)
(* accumulator.                                                            *)
(***************************************************************************)
\* mutant: only completed payments count
IsActivePayment_OnlyCompleted(payment) == payment.status = "completed"

IsActivePayment(payment) == payment.status \in ActiveWorkPeriodPaymentStatuses

RECURSIVE EachPayment(_, _, _)
EachPayment(ps, i, acc) ==
    IF i > Len(ps) THEN acc
    ELSE EachPayment(ps, i + 1,
            IF IsActivePayment(ps[i])
            THEN [daysPaid |-> acc.daysPaid + ps[i].days,
                  paymentTotal |-> acc.paymentTotal + ps[i].amount]
            ELSE acc)

Aggregate(ps) == EachPayment(ps, 1, [daysPaid |-> 0, paymentTotal |-> 0])

(***************************************************************************)
(* helper.calculateWorkPeriodPaymentStatus: the status policy.  Its code   *)
(* is not part of the sources; the specification describes it as an        *)
(* injected function of the aggregate, the duration and the previous       *)
(* status, and requires a pass repeated on what the policy stored to end   *)
(* in Unchanged.  The model configures one of two such functions:          *)
(*   byDays   - decided by daysPaid and durationWeeks alone;               *)
(*   sticky   - a completed period stays completed, otherwise byDays.      *)
(***************************************************************************)
StatusByDays(wp) ==
    IF wp.daysPaid = 0 THEN "pending"
    ELSE IF wp.daysPaid < 2 * wp.durationWeeks THEN "partially-completed"
    ELSE "completed"

StatusSticky(wp) ==
    IF wp.paymentStatus = "completed" THEN "completed" ELSE StatusByDays(wp)

calculateWorkPeriodPaymentStatus(wp) ==
    CASE policy = "byDays" -> StatusByDays(wp)
      [] OTHER -> StatusSticky(wp)

(***************************************************************************)
(* updateWorkPeriod, lines 24-33: the recomputed fields of a loaded work   *)
(* period.  The policy sees the loaded period with the new aggregates and  *)
(* the old paymentStatus (_.assign({}, workPeriod, data)).                 *)
(***************************************************************************)
Recompute(wp) ==
    LET agg == Aggregate(wp.payments)
        merged == [wp EXCEPT !.daysPaid = agg.daysPaid,
                             !.paymentTotal = agg.paymentTotal]
    IN [daysPaid |-> agg.daysPaid,
        paymentTotal |-> agg.paymentTotal,
        paymentStatus |-> calculateWorkPeriodPaymentStatus(merged)]

\* mutant: the total is compared with the wrong recomputed field
NoChange_WrongField(wp, d) ==
    /\ wp.daysPaid = d.daysPaid
    /\ wp.paymentTotal = d.daysPaid
    /\ wp.paymentStatus = d.paymentStatus

\* line 34: the guard of the "has no change - ignored" return
NoChange(wp, d) ==
    /\ wp.daysPaid = d.daysPaid
    /\ wp.paymentTotal = d.paymentTotal
    /\ wp.paymentStatus = d.paymentStatus

\* _.omit(x, 'payments')
OmitPayments(wp) ==
    [id |-> wp.id, resourceBookingId |-> wp.resourceBookingId,
     durationWeeks |-> wp.durationWeeks, daysPaid |-> wp.daysPaid,
     paymentTotal |-> wp.paymentTotal, paymentStatus |-> wp.paymentStatus]

\* workPeriodModel.update(data) on the instance as loaded: the instance
\* takes the values of data
Updated(wp, d) ==
    [wp EXCEPT !.daysPaid = d.daysPaid, !.paymentTotal = d.paymentTotal,
               !.paymentStatus = d.paymentStatus]

\* mutant: paymentTotal is left out of the write
WriteRow_SkipsTotal(row, wp, d) ==
    [row EXCEPT !.daysPaid = d.daysPaid, !.paymentStatus = d.paymentStatus]

\* mutant: daysPaid is left out of the write
WriteRow_SkipsDays(row, wp, d) ==
    [row EXCEPT !.paymentTotal = d.paymentTotal,
                !.paymentStatus = d.paymentStatus]

\* mutant: paymentStatus is left out of the write
WriteRow_SkipsStatus(row, wp, d) ==
    [row EXCEPT !.daysPaid = d.daysPaid, !.paymentTotal = d.paymentTotal]

\* line 42: the row after workPeriodModel.update(data). data carries the
\* three keys set at lines 25, 26 and 33, and the call names no fields
\* option, so the UPDATE sets the three columns to the values of data
WriteRow(row, wp, d) ==
    [row EXCEPT !.daysPaid = d.daysPaid, !.paymentTotal = d.paymentTotal,
                !.paymentStatus = d.paymentStatus]

\* line 43: the key option of the event
EventKey(wp) == <<"resourceBooking.id", wp.resourceBookingId>>

\* helper.postEvent, lines 289-295: the message given to the bus client
BusMessage(topic, payload) ==
    [topic |-> topic, mimeType |-> "application/json", payload |-> payload]

\* helper.postEvent, line 297: the argument of eventDispatcher.handleEvent
DispatchedEvent(topic, payload, options) ==
    [topic |-> topic, value |-> payload, options |-> options]

(***************************************************************************)
(* Initial state of the reconciler.                                        *)
(***************************************************************************)
NoRow ==
    [exists |-> FALSE, id |-> "none", resourceBookingId |-> "none",
     durationWeeks |-> 0, daysPaid |-> 0, paymentTotal |-> 0,
     paymentStatus |-> "pending"]

NoSnapshot ==
    [id |-> "none", resourceBookingId |-> "none", durationWeeks |-> 0,
     daysPaid |-> 0, paymentTotal |-> 0, paymentStatus |-> "pending",
     payments |-> <<>>]

NoData == [daysPaid |-> 0, paymentTotal |-> 0, paymentStatus |-> "pending"]

NoPass ==
    [done |-> FALSE, outcome |-> "none", loaded |-> NoSnapshot, data |-> NoData,
     overlapped |-> FALSE]

BookingOf(w) == IF w = "wp1" THEN "rb1" ELSE "rb2"

ReconcilerIdle ==
    /\ pending = [w \in WorkPeriodIds |-> 0]
    /\ events = 0
    /\ pc = [p \in Procs |-> "idle"]
    /\ evt = [p \in Procs |-> "wp1"]
    /\ workPeriod = [p \in Procs |-> NoSnapshot]
    /\ data = [p \in Procs |-> NoData]
    /\ bus = <<>>
    /\ dispatched = <<>>
    /\ lastPass = [w \in WorkPeriodIds |-> NoPass]
    /\ overlap = [p \in Procs |-> FALSE]
    /\ failures = <<>>
    /\ nPersist = [w \in WorkPeriodIds |-> 0]

DurationIdle ==
    /\ dinput = [startDate |-> <<>>, endDate |-> <<>>, duration |-> <<>>]
    /\ dresult = [kind |-> "none", startDate |-> <<>>, endDate |-> <<>>,
                  duration |-> <<>>, message |-> ""]
    /\ dpc = "off"

UpdaterIdle ==
    /\ uoriginal = [startDate |-> <<>>, endDate |-> <<>>, duration |-> <<>>]
    /\ upatch = [keys |-> {}, startDate |-> <<>>, endDate |-> <<>>,
                 duration |-> <<>>]
    /\ uresult = [via |-> "none"]
    /\ upc = "off"

Init ==
    /\ payments = [w \in WorkPeriodIds |-> <<>>]
    /\ db = [w \in WorkPeriodIds |->
               IF w = "wp1"
               THEN [exists |-> TRUE, id |-> w,
                     resourceBookingId |-> BookingOf(w),
                     durationWeeks |-> 1, daysPaid |-> 0,
                     paymentTotal |-> 0, paymentStatus |-> "pending"]
               ELSE NoRow]
    /\ policy \in PolicyNames
    /\ serial = TRUE
    /\ tz = "fixed"
    /\ ReconcilerIdle
    /\ DurationIdle
    /\ UpdaterIdle

(***************************************************************************)
(* The payment workflow: a record is created or updated, and the write     *)
(* owes one event to the handler (processCreate / processUpdate).  The     *)
(* handler reads payload.value.workPeriodId alone, so an update owes its   *)
(* event whether or not it changes status, days or amount.                 *)
(***************************************************************************)
PaymentCreate(w, rec) ==
    /\ db[w].exists
    /\ events < MaxEvents
    /\ Len(payments[w]) < MaxPayments
    /\ payments' = [payments EXCEPT ![w] = Append(@, rec)]
    /\ pending' = [pending EXCEPT ![w] = @ + 1]
    /\ events' = events + 1
    /\ UNCHANGED <<db, policy, pc, evt, workPeriod, data, bus, dispatched,
                   lastPass, serial, overlap, failures, nPersist, dvars>>

PaymentUpdate(w, i, rec) ==
    /\ db[w].exists
    /\ events < MaxEvents
    /\ i \in 1..Len(payments[w])
    /\ payments' = [payments EXCEPT ![w][i] = rec]
    /\ pending' = [pending EXCEPT ![w] = @ + 1]
    /\ events' = events + 1
    /\ UNCHANGED <<db, policy, pc, evt, workPeriod, data, bus, dispatched,
                   lastPass, serial, overlap, failures, nPersist, dvars>>

\* at-least-once delivery: an event is delivered again
Redeliver(w) ==
    /\ db[w].exists
    /\ events < MaxEvents
    /\ events > 0
    /\ pending' = [pending EXCEPT ![w] = @ + 1]
    /\ events' = events + 1
    /\ UNCHANGED <<payments, db, policy, pc, evt, workPeriod, data, bus,
                   dispatched, lastPass, serial, overlap, failures, nPersist,
                   dvars>>

(***************************************************************************)
(* updateWorkPeriod, one action per await.                                 *)
(***************************************************************************)
\* the passes that stand between their load and their return on period w
InFlight(w) == {q \in Procs : pc[q] # "idle" /\ evt[q] = w}

\* mutant: the lookup ignores the id of the event
FindById_First(w) ==
    [id |-> db["wp1"].id, resourceBookingId |-> db["wp1"].resourceBookingId,
     durationWeeks |-> db["wp1"].durationWeeks,
     daysPaid |-> db["wp1"].daysPaid, paymentTotal |-> db["wp1"].paymentTotal,
     paymentStatus |-> db["wp1"].paymentStatus, payments |-> payments["wp1"]]

\* lines 22-23: the period of that id with its payments, as toJSON() gives it
FindById(w) ==
    [id |-> db[w].id, resourceBookingId |-> db[w].resourceBookingId,
     durationWeeks |-> db[w].durationWeeks, daysPaid |-> db[w].daysPaid,
     paymentTotal |-> db[w].paymentTotal,
     paymentStatus |-> db[w].paymentStatus, payments |-> payments[w]]

\* line 22-23: WorkPeriod.findById(id, { withPayments: true }) and toJSON()
Load(p, w) ==
    /\ pc[p] = "idle"
    /\ \A q \in Procs : q < p => pc[q] # "idle"   \* the first free worker
    /\ pending[w] > 0
    /\ db[w].exists
    /\ serial => \A q \in Procs : pc[q] # "idle" => evt[q] # w
    /\ overlap' = [q \in Procs |->
          IF q = p THEN InFlight(w) # {}
          ELSE overlap[q] \/ q \in InFlight(w)]
    /\ pending' = [pending EXCEPT ![w] = @ - 1]
    /\ evt' = [evt EXCEPT ![p] = w]
    /\ workPeriod' = [workPeriod EXCEPT ![p] = FindById(w)]
    /\ pc' = [pc EXCEPT ![p] = "loaded"]
    /\ UNCHANGED <<payments, db, policy, events, data, bus, dispatched,
                   lastPass, serial, failures, nPersist, dvars>>

\* lines 24-41 when the guard of line 34 holds: log and return
ReconcileUnchanged(p) ==
    /\ pc[p] = "loaded"
    /\ LET d == Recompute(workPeriod[p]) IN
          /\ NoChange(workPeriod[p], d)
          /\ data' = [data EXCEPT ![p] = d]
          /\ lastPass' = [lastPass EXCEPT ![evt[p]] =
                [done |-> TRUE, outcome |-> "Unchanged",
                 loaded |-> workPeriod[p], data |-> d,
                 overlapped |-> overlap[p]]]
    /\ pc' = [pc EXCEPT ![p] = "idle"]
    /\ UNCHANGED <<payments, db, policy, pending, events, evt, workPeriod,
                   bus, dispatched, serial, overlap, failures, nPersist,
                   dvars>>

\* lines 24-42 otherwise: workPeriodModel.update(data)
ReconcilePersist(p) ==
    /\ pc[p] = "loaded"
    /\ LET d == Recompute(workPeriod[p]) IN
          /\ ~NoChange(workPeriod[p], d)
          /\ data' = [data EXCEPT ![p] = d]
          /\ db' = [db EXCEPT ![evt[p]] = WriteRow(@, workPeriod[p], d)]
    /\ nPersist' = [nPersist EXCEPT ![evt[p]] = @ + 1]
    /\ pc' = [pc EXCEPT ![p] = "postEvent"]
    /\ UNCHANGED <<payments, policy, pending, events, evt, workPeriod, bus,
                   dispatched, lastPass, serial, overlap, failures, dvars>>

\* line 43 and helper.postEvent line 296: client.postEvent(message)
PostEventBus(p) ==
    /\ pc[p] = "postEvent"
    /\ bus' = Append(bus,
          BusMessage(TAAS_WORK_PERIOD_UPDATE_TOPIC,
                     OmitPayments(Updated(workPeriod[p], data[p]))))
    /\ pc' = [pc EXCEPT ![p] = "handleEvent"]
    /\ UNCHANGED <<payments, db, policy, pending, events, evt, workPeriod,
                   data, dispatched, lastPass, serial, overlap, failures,
                   nPersist, dvars>>

\* helper.postEvent line 297: eventDispatcher.handleEvent, then the return
\* of updateWorkPeriod (lines 44-49)
PostEventDispatch(p) ==
    /\ pc[p] = "handleEvent"
    /\ dispatched' = Append(dispatched,
          DispatchedEvent(TAAS_WORK_PERIOD_UPDATE_TOPIC,
                          OmitPayments(Updated(workPeriod[p], data[p])),
                          [oldValue |-> workPeriod[p],
                           key |-> EventKey(workPeriod[p])]))
    /\ lastPass' = [lastPass EXCEPT ![evt[p]] =
          [done |-> TRUE, outcome |-> "Persisted",
           loaded |-> workPeriod[p], data |-> data[p],
           overlapped |-> overlap[p]]]
    /\ pc' = [pc EXCEPT ![p] = "idle"]
    /\ UNCHANGED <<payments, db, policy, pending, events, evt, workPeriod,
                   data, bus, serial, overlap, failures, nPersist, dvars>>

(***************************************************************************)
(* Failures of a pass.  updateWorkPeriod catches nothing, so whatever an   *)
(* await throws leaves it as a rejection handed to its caller.             *)
(***************************************************************************)
\* processCreate / processUpdate for a payment whose workPeriodId names no
\* stored work period
OrphanEvent(w) ==
    /\ ~db[w].exists
    /\ events < MaxEvents
    /\ pending' = [pending EXCEPT ![w] = @ + 1]
    /\ events' = events + 1
    /\ UNCHANGED <<payments, db, policy, pc, evt, workPeriod, data, bus,
                   dispatched, lastPass, serial, overlap, failures, nPersist,
                   dvars>>

\* the errors lines 22-23 can end with when no row has the id: findById
\* rejects, or it resolves to null and null.toJSON() throws
MissingErrors == {"NotFoundError", "TypeError"}

Failure(w, at, error) == [workPeriodId |-> w, at |-> at, error |-> error]

\* mutant: the event of a missing period is consumed and nothing is thrown
LoadMissing_Drops(p, w) ==
    /\ pc[p] = "idle"
    /\ \A q \in Procs : q < p => pc[q] # "idle"
    /\ pending[w] > 0
    /\ ~db[w].exists
    /\ pending' = [pending EXCEPT ![w] = @ - 1]
    /\ UNCHANGED <<payments, db, policy, events, pc, evt, workPeriod, data,
                   bus, dispatched, lastPass, serial, overlap, failures,
                   nPersist, dvars>>

\* lines 22-23 when no work period has the id of the event: the pass ends
\* there with an error, before line 24
LoadMissing(p, w) ==
    /\ pc[p] = "idle"
    /\ \A q \in Procs : q < p => pc[q] # "idle"
    /\ pending[w] > 0
    /\ ~db[w].exists
    /\ pending' = [pending EXCEPT ![w] = @ - 1]
    /\ \E e \in MissingErrors :
          failures' = Append(failures, Failure(w, "findById", e))
    /\ UNCHANGED <<payments, db, policy, events, pc, evt, workPeriod, data,
                   bus, dispatched, lastPass, serial, overlap, nPersist,
                   dvars>>

\* helper.postEvent line 296 rejects (or the process stops between line 42
\* and the send): the row is written, nothing is sent, the error leaves
\* updateWorkPeriod and the delivery layer delivers the event again
BusFails(p) ==
    /\ pc[p] = "postEvent"
    /\ failures' = Append(failures, Failure(evt[p], "postEvent", "BusError"))
    /\ pending' = [pending EXCEPT ![evt[p]] = @ + 1]
    /\ pc' = [pc EXCEPT ![p] = "idle"]
    /\ UNCHANGED <<payments, db, policy, events, evt, workPeriod, data, bus,
                   dispatched, lastPass, serial, overlap, nPersist, dvars>>

\* helper.postEvent line 297 rejects: the message is on the bus, the local
\* dispatch failed, the error leaves updateWorkPeriod and the delivery
\* layer delivers the event again
DispatchFails(p) ==
    /\ pc[p] = "handleEvent"
    /\ failures' =
          Append(failures, Failure(evt[p], "handleEvent", "DispatchError"))
    /\ pending' = [pending EXCEPT ![evt[p]] = @ + 1]
    /\ pc' = [pc EXCEPT ![p] = "idle"]
    /\ UNCHANGED <<payments, db, policy, events, evt, workPeriod, data, bus,
                   dispatched, lastPass, serial, overlap, nPersist, dvars>>

\* the payment records of the specifications below: one active and one
\* inactive record of the same days and amount
SampleRecords ==
    [status : {"completed", "cancelled"}, days : {2}, amount : {100}]

\* one stored period (wp1), one id that names no period (wp2), the policy
\* byDays, passes of a period one at a time
FailInit ==
    /\ payments = [w \in WorkPeriodIds |-> <<>>]
    /\ db = [w \in WorkPeriodIds |->
               IF w = "wp1"
               THEN [exists |-> TRUE, id |-> w,
                     resourceBookingId |-> BookingOf(w),
                     durationWeeks |-> 1, daysPaid |-> 0,
                     paymentTotal |-> 0, paymentStatus |-> "pending"]
               ELSE NoRow]
    /\ policy = "byDays"
    /\ serial = TRUE
    /\ tz = "fixed"
    /\ ReconcilerIdle
    /\ DurationIdle
    /\ UpdaterIdle

FailNext ==
    \/ \E w \in WorkPeriodIds, rec \in SampleRecords : PaymentCreate(w, rec)
    \/ \E w \in WorkPeriodIds, i \in 1..MaxPayments, rec \in SampleRecords :
          PaymentUpdate(w, i, rec)
    \/ \E w \in WorkPeriodIds : Redeliver(w)
    \/ \E w \in WorkPeriodIds : OrphanEvent(w)
    \/ \E p \in Procs, w \in WorkPeriodIds : Load(p, w)
    \/ \E p \in Procs, w \in WorkPeriodIds : LoadMissing(p, w)
    \/ \E p \in Procs : ReconcileUnchanged(p)
    \/ \E p \in Procs : ReconcilePersist(p)
    \/ \E p \in Procs : PostEventBus(p)
    \/ \E p \in Procs : PostEventDispatch(p)
    \/ \E p \in Procs : BusFails(p)
    \/ \E p \in Procs : DispatchFails(p)

FailSpec == FailInit /\ [][FailNext]_vars

\* C15: a pass whose event names a work period that is not stored ends with
\* an error thrown to its caller: the event is consumed, exactly one error
\* naming that period is reported, and no row, no payment record, no bus
\* message and no dispatch is written.
C15_MissingParentFails ==
    [][\A w \in WorkPeriodIds :
          (~db[w].exists /\ pending'[w] < pending[w]) =>
             /\ Len(failures') = Len(failures) + 1
             /\ failures'[Len(failures')].workPeriodId = w
             /\ failures'[Len(failures')].error \in MissingErrors
             /\ db' = db /\ payments' = payments
             /\ bus' = bus /\ dispatched' = dispatched
             /\ nPersist' = nPersist /\ lastPass' = lastPass]_vars

\* the event of a missing period was consumed and its error reported,
\* nothing was written or emitted for that id
C15_Witness ==
    /\ \E i \in 1..Len(failures) :
          failures[i].workPeriodId = "wp2" /\ failures[i].at = "findById"
    /\ pending["wp2"] = 0
    /\ ~db["wp2"].exists
    /\ nPersist["wp2"] = 0
    /\ \A i \in 1..Len(bus) : bus[i].payload.id # "wp2"

(***************************************************************************)
(* Properties of the reconciler (specification Spec).                      *)
(***************************************************************************)
\* the sums over the active records, taken record by record over the set
\* of their positions
ActiveIndexes(ps) ==
    {i \in 1..Len(ps) : ps[i].status \in ActiveWorkPeriodPaymentStatuses}

RECURSIVE SumDays(_, _)
SumDays(ps, I) ==
    IF I = {} THEN 0
    ELSE LET i == CHOOSE j \in I : TRUE IN ps[i].days + SumDays(ps, I \ {i})

RECURSIVE SumAmount(_, _)
SumAmount(ps, I) ==
    IF I = {} THEN 0
    ELSE LET i == CHOOSE j \in I : TRUE IN ps[i].amount + SumAmount(ps, I \ {i})

\* pass p leaves line 34 in this step
Reconciles(p) == pc[p] = "loaded" /\ pc'[p] # "loaded"

\* pass p ends in Unchanged in this step: no write, no emission
EndsUnchanged(p) ==
    /\ pc'[p] = "idle"
    /\ lastPass'[evt[p]].outcome = "Unchanged"
    /\ db' = db
    /\ bus' = bus
    /\ dispatched' = dispatched

\* no pass of w is under way and no event of w waits for one
Quiescent(w) ==
    /\ pending[w] = 0
    /\ \A p \in Procs : pc[p] = "idle" \/ evt[p] # w

\* the pass about to reconcile follows a completed pass of the same period
\* that loaded the same payment set
RepeatsLastPass(p) ==
    /\ lastPass[evt[p]].done
    /\ lastPass[evt[p]].loaded.payments = workPeriod[p].payments

\* C1: a pass that follows a completed pass of the same period, with the
\* payment set and the period untouched in between, ends in Unchanged: it
\* writes nothing and emits nothing.
C1_SecondRunUnchanged ==
    [][\A p \in Procs :
          (Reconciles(p) /\ RepeatsLastPass(p)) => EndsUnchanged(p)]_vars

\* a second pass over an unchanged, paid period has ended in Unchanged
\* after the first one persisted and announced the change
C1_Witness ==
    \E w \in WorkPeriodIds :
       /\ lastPass[w].outcome = "Unchanged"
       /\ lastPass[w].loaded.daysPaid > 0
       /\ Len(bus) = 1 /\ Len(dispatched) = 1
       /\ Quiescent(w)

\* C2: a pass whose recomputed daysPaid, paymentTotal and paymentStatus all
\* equal the values stored on the work period ends in Unchanged: the row is
\* not written and nothing is handed to the bus or to the dispatcher.
C2_CompareGuard ==
    [][\A p \in Procs :
          (/\ Reconciles(p)
           /\ Recompute(workPeriod[p]).daysPaid = db[evt[p]].daysPaid
           /\ Recompute(workPeriod[p]).paymentTotal = db[evt[p]].paymentTotal
           /\ Recompute(workPeriod[p]).paymentStatus = db[evt[p]].paymentStatus)
          => EndsUnchanged(p)]_vars

\* a pass over a non-empty payment set has ended in Unchanged with nothing
\* ever emitted
C2_Witness ==
    \E w \in WorkPeriodIds :
       /\ lastPass[w].outcome = "Unchanged"
       /\ Len(lastPass[w].loaded.payments) > 0
       /\ bus = <<>> /\ dispatched = <<>>

\* C3 as stated: a pass that found a difference has written the row before
\* it emits, and the one event it emits carries the row after the write as
\* the current snapshot, the period as loaded as the previous snapshot, and
\* the owning booking's identifier as its key.
C3_PersistThenEmitEvent ==
    \A p \in Procs :
       /\ pc[p] \in {"postEvent", "handleEvent"} =>
             OmitPayments(Updated(workPeriod[p], data[p]))
                = OmitPayments(db[evt[p]])
       /\ pc[p] = "handleEvent" =>
             LET m == bus[Len(bus)] IN
               /\ m.topic = TAAS_WORK_PERIOD_UPDATE_TOPIC
               /\ m.payload = OmitPayments(db[evt[p]])
               /\ "oldValue" \in DOMAIN m
               /\ m.oldValue = workPeriod[p]
               /\ "key" \in DOMAIN m
               /\ m.key = EventKey(workPeriod[p])

\* C4: when the last pass of a period has completed, no pass of the period
\* is under way and no event of it is waiting, the stored daysPaid and
\* paymentTotal are the sums over the stored active payment records, and
\* the stored paymentStatus is what the policy returns for them (and the
\* status that pass loaded).
C4_DerivedFieldsConsistent ==
    \A w \in WorkPeriodIds :
       (lastPass[w].done /\ Quiescent(w)) =>
          LET I == ActiveIndexes(payments[w]) IN
            /\ db[w].daysPaid = SumDays(payments[w], I)
            /\ db[w].paymentTotal = SumAmount(payments[w], I)
            /\ db[w].paymentStatus =
                  calculateWorkPeriodPaymentStatus(
                     [lastPass[w].loaded EXCEPT
                         !.daysPaid = SumDays(payments[w], I),
                         !.paymentTotal = SumAmount(payments[w], I)])

\* a period with an active and an inactive record is at rest after a pass
\* that persisted
C4_Witness ==
    \E w \in WorkPeriodIds :
       /\ lastPass[w].outcome = "Persisted"
       /\ Quiescent(w)
       /\ Len(payments[w]) = 2
       /\ ActiveIndexes(payments[w]) # {}
       /\ ActiveIndexes(payments[w]) # {1, 2}

\* C5: the aggregate a pass computes is the sum of days and the sum of
\* amount over exactly the loaded records with an active status; with no
\* such record it is {0, 0}.
AggregatesActive(ps, d) ==
    /\ d.daysPaid = SumDays(ps, ActiveIndexes(ps))
    /\ d.paymentTotal = SumAmount(ps, ActiveIndexes(ps))
    /\ ActiveIndexes(ps) = {} => (d.daysPaid = 0 /\ d.paymentTotal = 0)

C5_PaymentAggregation ==
    /\ \A p \in Procs :
          pc[p] \in {"postEvent", "handleEvent"} =>
             AggregatesActive(workPeriod[p].payments, data[p])
    /\ \A w \in WorkPeriodIds :
          lastPass[w].done =>
             AggregatesActive(lastPass[w].loaded.payments, lastPass[w].data)

\* a pass has aggregated a scheduled and a cancelled record
C5_Witness ==
    \E p \in Procs :
       /\ pc[p] = "postEvent"
       /\ Len(workPeriod[p].payments) = 2
       /\ \E i, j \in 1..2 :
             /\ workPeriod[p].payments[i].status = "scheduled"
             /\ workPeriod[p].payments[j].status = "cancelled"

(***************************************************************************)
(* The worker pool: two stored periods, passes taken by any free worker.   *)
(* With serial = FALSE nothing keeps two passes of one period apart: the   *)
(* handler takes no lock and opens no transaction between lines 22 and 42. *)
(* wp1 starts either new or already reconciled with one paid record.       *)
(***************************************************************************)
PaidRecord == [status |-> "completed", days |-> 2, amount |-> 100]

PoolInit ==
    /\ \E paid \in BOOLEAN :
          /\ payments = [w \in WorkPeriodIds |->
                IF paid /\ w = "wp1" THEN <<PaidRecord>> ELSE <<>>]
          /\ db = [w \in WorkPeriodIds |->
                [exists |-> TRUE, id |-> w,
                 resourceBookingId |-> BookingOf(w), durationWeeks |-> 1,
                 daysPaid |-> Aggregate(payments[w]).daysPaid,
                 paymentTotal |-> Aggregate(payments[w]).paymentTotal,
                 paymentStatus |->
                    StatusByDays([durationWeeks |-> 1,
                                  daysPaid |->
                                     Aggregate(payments[w]).daysPaid])]]
    /\ policy = "byDays"
    /\ serial \in BOOLEAN
    /\ tz = "fixed"
    /\ ReconcilerIdle
    /\ DurationIdle
    /\ UpdaterIdle

\* what an update leaves in a stored record: another status, another
\* amount, or the record as it was
PoolUpdates ==
    SampleRecords \cup {[status |-> "completed", days |-> 2, amount |-> 250]}

PoolNext ==
    \/ \E w \in WorkPeriodIds, rec \in SampleRecords : PaymentCreate(w, rec)
    \/ \E w \in WorkPeriodIds, i \in 1..MaxPayments, rec \in PoolUpdates :
          PaymentUpdate(w, i, rec)
    \/ \E w \in WorkPeriodIds : Redeliver(w)
    \/ \E p \in Procs, w \in WorkPeriodIds : Load(p, w)
    \/ \E p \in Procs : ReconcileUnchanged(p)
    \/ \E p \in Procs : ReconcilePersist(p)
    \/ \E p \in Procs : PostEventBus(p)
    \/ \E p \in Procs : PostEventDispatch(p)

PoolSpec == PoolInit /\ [][PoolNext]_vars

DerivedFields == {"daysPaid", "paymentTotal", "paymentStatus"}

\* pass p runs line 42 in this step
Persists(p) == pc[p] = "loaded" /\ pc'[p] = "postEvent"

\* some pass moves in this step
PassStep == \E p \in Procs : pc'[p] # pc[p]

\* C16 as stated: the step of a pass that persists changes, among the three
\* derived columns of the stored row, only those whose recomputed value
\* differs from the value the pass loaded; and no step of a pass changes a
\* payment record, the identifiers or the duration of a stored period.
C16_WritesOnlyChangedFields ==
    [][/\ \A p \in Procs : Persists(p) =>
             \A f \in DerivedFields :
                data'[p][f] = workPeriod[p][f] =>
                   db'[evt[p]][f] = db[evt[p]][f]
       /\ PassStep =>
             /\ payments' = payments
             /\ \A w \in WorkPeriodIds :
                   /\ db'[w].exists = db[w].exists
                   /\ db'[w].id = db[w].id
                   /\ db'[w].resourceBookingId = db[w].resourceBookingId
                   /\ db'[w].durationWeeks = db[w].durationWeeks]_vars

\* the stored derived fields of w are what a recomputation over the stored
\* payment records gives
Consistent(w) ==
    LET I == ActiveIndexes(payments[w]) IN
      /\ db[w].daysPaid = SumDays(payments[w], I)
      /\ db[w].paymentTotal = SumAmount(payments[w], I)
      /\ db[w].paymentStatus =
            calculateWorkPeriodPaymentStatus(
               [lastPass[w].loaded EXCEPT
                   !.daysPaid = SumDays(payments[w], I),
                   !.paymentTotal = SumAmount(payments[w], I)])

\* the bus messages about period w, in order
RECURSIVE MessagesOf(_, _)
MessagesOf(msgs, w) ==
    IF msgs = <<>> THEN <<>>
    ELSE LET rest == MessagesOf(Tail(msgs), w) IN
           IF Head(msgs).payload.id = w THEN <<Head(msgs)>> \o rest ELSE rest

\* line 42 and line 43 work on the snapshot of line 22 alone: the write
\* stores what the pass computed from its own snapshot, whatever the row
\* and the payment records have become, and the message announces it
StaleWrite ==
    \A p \in Procs :
       /\ Persists(p) =>
             LET agg == Aggregate(workPeriod[p].payments) IN
               /\ db'[evt[p]].daysPaid = agg.daysPaid
               /\ db'[evt[p]].paymentTotal = agg.paymentTotal
       /\ (pc[p] = "postEvent" /\ pc'[p] = "handleEvent") =>
             LET agg == Aggregate(workPeriod[p].payments)
                 m == bus'[Len(bus')]
             IN /\ Len(bus') = Len(bus) + 1
                /\ m.payload.id = evt[p]
                /\ m.payload.daysPaid = agg.daysPaid
                /\ m.payload.paymentTotal = agg.paymentTotal

\* C17: a pass may load a period while another pass of it is under way;
\* each pass then writes and announces the aggregates of its own snapshot,
\* so the row can end with the values of a stale snapshot.  When the last
\* completed pass of a period at rest ran with no other pass of that period
\* under way, the stored derived fields agree with the payment records.
C17_SamePeriodNeedsSerialization ==
    /\ [](\A w \in WorkPeriodIds :
            (lastPass[w].done /\ Quiescent(w) /\ ~lastPass[w].overlapped)
               => Consistent(w))
    /\ [][StaleWrite]_vars

\* pass A loaded, a payment was added, pass B loaded and persisted, pass A
\* persisted last: the period is at rest with the sums of A's snapshot,
\* which are not the sums of the stored records, and the last message about
\* the period announces them
C17_Witness ==
    \E w \in WorkPeriodIds :
       LET I == ActiveIndexes(payments[w])
           agg == Aggregate(lastPass[w].loaded.payments)
           ms == MessagesOf(bus, w)
       IN /\ lastPass[w].done /\ Quiescent(w)
          /\ lastPass[w].overlapped
          /\ lastPass[w].outcome = "Persisted"
          /\ lastPass[w].loaded.payments # payments[w]
          /\ db[w].daysPaid = agg.daysPaid
          /\ db[w].daysPaid # SumDays(payments[w], I)
          /\ Len(ms) = 2
          /\ ms[2].payload.daysPaid = agg.daysPaid
          /\ ms[1].payload.daysPaid = SumDays(payments[w], I)

\* the period a step of pass p works on
PeriodOf(p) == IF pc[p] = "idle" THEN evt'[p] ELSE evt[p]

\* a step of a pass reads the row and the records of its own period only,
\* and changes nothing that belongs to another period
OwnPeriodOnly ==
    \A p \in Procs :
       pc'[p] # pc[p] =>
          LET w == PeriodOf(p) IN
            /\ payments' = payments
            /\ \A v \in WorkPeriodIds \ {w} :
                  /\ db'[v] = db[v]
                  /\ pending'[v] = pending[v]
                  /\ lastPass'[v] = lastPass[v]
                  /\ nPersist'[v] = nPersist[v]
                  /\ MessagesOf(bus', v) = MessagesOf(bus, v)
            /\ pc[p] = "idle" =>
                  /\ workPeriod'[p].payments = payments[w]
                  /\ OmitPayments(workPeriod'[p]) = OmitPayments(db[w])
            /\ dispatched' # dispatched =>
                  dispatched'[Len(dispatched')].value.id = w

\* what a run of the passes of w one after another leaves: a period at
\* rest agrees with its records, each write of w is announced by one
\* message about w, and no two messages in a row about w say the same
AsOneAfterAnother(w) ==
    LET ms == MessagesOf(bus, w)
        unsent == {p \in Procs : pc[p] = "postEvent" /\ evt[p] = w}
    IN /\ (lastPass[w].done /\ Quiescent(w)) => Consistent(w)
       /\ Len(ms) + Cardinality(unsent) = nPersist[w]
       /\ \A i \in 1..(Len(ms) - 1) : ms[i].payload # ms[i + 1].payload
       /\ (ms # <<>> /\ unsent = {}) =>
             ms[Len(ms)].payload = OmitPayments(db[w])

\* C18: every step of a pass reads and writes its own period only, and when
\* the passes of each single period run one at a time, however they are
\* interleaved with the passes of the other period, each period's stored
\* derived fields and its messages are those of a run of its passes one
\* after another.
C18_PeriodsIndependent ==
    /\ [][OwnPeriodOnly]_vars
    /\ [](serial => \A w \in WorkPeriodIds : AsOneAfterAnother(w))

\* passes of the two periods were under way at the same time, both have
\* persisted and announced, and both periods are at rest
C18_Witness ==
    /\ serial
    /\ \A w \in WorkPeriodIds :
          /\ lastPass[w].done /\ Quiescent(w)
          /\ lastPass[w].outcome = "Persisted"
          /\ Len(MessagesOf(bus, w)) = 1
    /\ bus[1].payload.id = "wp2"
    /\ dispatched[1].value.id = "wp1"

\* the row of w as it is stored has been announced on the bus
Announced(w) ==
    \E i \in 1..Len(bus) : bus[i].payload = OmitPayments(db[w])

RECURSIVE TotalPersists(_)
TotalPersists(W) ==
    IF W = {} THEN 0
    ELSE LET w == CHOOSE v \in W : TRUE IN nPersist[w] + TotalPersists(W \ {w})

\* C19 as stated: once a period that was written is at rest again (every
\* event delivered again after a failed emission has been taken by a pass
\* that returned), a message announcing the stored values is on the bus;
\* and there are never more messages than resolved writes.
C19_PersistedChangeAnnounced ==
    /\ \A w \in WorkPeriodIds :
          (nPersist[w] > 0 /\ Quiescent(w)) => Announced(w)
    /\ Len(bus) <= TotalPersists(WorkPeriodIds)

(***************************************************************************)
(* The duration calculator, helper.calculateDuration.                      *)
(*                                                                         *)
(* An instant is a whole number of hours (Date.getTime() in units of       *)
(* 60 * 60 * 1000 ms); the inputs are instants at midnight or noon of the  *)
(* days 0..MaxDay.  A field that is not supplied (undefined) is <<>>, a    *)
(* supplied value v is <<v>>.  Dates are Date objects or date strings, so  *)
(* a supplied date is truthy; a supplied duration is a positive integer.   *)
(* Hour 0 is a local midnight.                                             *)
(*                                                                         *)
(* dateFNS.addWeeks / subWeeks are addDays(date, 7 * amount), that is      *)
(* date.setDate(date.getDate() + 7 * amount): they move the local calendar *)
(* date and keep the local time of day.  The process runs in one of three  *)
(* time zones:                                                             *)
(*   fixed  - the UTC offset never changes;                                *)
(*   spring - at local 02:00 of day 7 the clocks go forward one hour;      *)
(*   fall   - at local 02:00 of day 7 the clocks go back one hour.         *)
(***************************************************************************)
OneWeek == 7 * 24          \* line 647: 7 * 24 * 60 * 60 * 1000 ms, in hours

Dates == {24 * d + h : d \in 0..MaxDay, h \in {0, 12}}
Durations == 1..MaxWeeks

Absent == <<>>
Opt(S) == {Absent} \cup {<<v>> : v \in S}

DurationInputs ==
    [startDate : Opt(Dates), endDate : Opt(Dates), duration : Opt(Durations)]

\* JavaScript truthiness of a field: undefined is falsy, a date (an object
\* or a non-empty string) is truthy, a number is truthy unless it is 0
TruthyDate(x) == x # Absent
TruthyNumber(x) == x # Absent /\ x[1] # 0

TimeZones == {"fixed", "spring", "fall"}

\* the instant at which the clocks of the zones spring and fall change
DstAt == OneWeek + 2

\* the local clock reading of instant t, in hours since local hour 0
Wall(t) ==
    CASE tz = "spring" -> IF t < DstAt THEN t ELSE t + 1
      [] tz = "fall" -> IF t < DstAt THEN t ELSE t - 1
      [] OTHER -> t

\* the instant of a local clock reading, as Date#setDate resolves it: a
\* reading the forward change skips counts from the offset before the
\* change, a reading the backward change repeats is its first occurrence
FromWall(wc) ==
    CASE tz = "spring" -> IF wc <= DstAt THEN wc ELSE wc - 1
      [] tz = "fall" -> IF wc < DstAt THEN wc ELSE wc + 1
      [] OTHER -> wc

\* mutant: the amount is added as days
addWeeks_AsDays(date, amount) == FromWall(Wall(date) + amount * 24)

\* addDays returns the date untouched when the amount is 0, and moves the
\* local calendar date otherwise
addWeeks(date, amount) ==
    IF amount = 0 THEN date ELSE FromWall(Wall(date) + 7 * amount * 24)

subWeeks(date, amount) ==
    IF amount = 0 THEN date ELSE FromWall(Wall(date) - 7 * amount * 24)

EndDateMessage == "end date must be one or multiple weeks ahead of start date"
DurationMessage ==
    "duration not match with the actual duration bwteen startDate and endDate"

Triple(s, e, d) ==
    [kind |-> "triple", startDate |-> s, endDate |-> e, duration |-> d,
     message |-> ""]
EmptyResult ==
    [kind |-> "empty", startDate |-> Absent, endDate |-> Absent,
     duration |-> Absent, message |-> ""]
BadRequestError(msg) ==
    [kind |-> "BadRequestError", startDate |-> Absent, endDate |-> Absent,
     duration |-> Absent, message |-> msg]
NotCalled ==
    [kind |-> "none", startDate |-> Absent, endDate |-> Absent,
     duration |-> Absent, message |-> ""]

\* mutant: the computed duration replaces a supplied one that differs
CheckRange_Overrides(in) ==
    LET diff == in.endDate[1] - in.startDate[1]
    IN IF diff % OneWeek # 0 \/ diff < OneWeek
       THEN BadRequestError(EndDateMessage)
       ELSE Triple(in.startDate, in.endDate, <<diff \div OneWeek>>)

\* mutant: a gap that is no whole number of weeks is rounded down
CheckRange_Rounds(in) ==
    LET diff == in.endDate[1] - in.startDate[1]
        actualDuration == diff \div OneWeek
    IN IF diff < OneWeek
       THEN BadRequestError(EndDateMessage)
       ELSE IF TruthyNumber(in.duration) /\ actualDuration # in.duration[1]
       THEN BadRequestError(DurationMessage)
       ELSE Triple(in.startDate, in.endDate, <<actualDuration>>)

\* lines 645-655: both dates are supplied.  actualDuration is
\* diff / OneWeek; it is an integer iff OneWeek divides diff.
CheckRange(in) ==
    LET diff == in.endDate[1] - in.startDate[1]
        isInteger == diff % OneWeek = 0
        actualDuration == diff \div OneWeek
    IN IF ~isInteger \/ diff < OneWeek
       THEN BadRequestError(EndDateMessage)
       ELSE IF TruthyNumber(in.duration) /\ actualDuration # in.duration[1]
       THEN BadRequestError(DurationMessage)
       ELSE Triple(in.startDate, in.endDate, <<actualDuration>>)

\* mutant: the two dates alone are not enough
calculateDuration_NeedsDuration(in) ==
    IF TruthyDate(in.startDate) /\ ~TruthyDate(in.endDate) /\ TruthyNumber(in.duration)
    THEN Triple(in.startDate,
                <<addWeeks(in.startDate[1], in.duration[1])>>, in.duration)
    ELSE IF ~TruthyDate(in.startDate) /\ TruthyDate(in.endDate) /\ TruthyNumber(in.duration)
    THEN Triple(<<subWeeks(in.endDate[1], in.duration[1])>>,
                in.endDate, in.duration)
    ELSE IF TruthyDate(in.startDate) /\ TruthyDate(in.endDate) /\ TruthyNumber(in.duration)
    THEN CheckRange(in)
    ELSE EmptyResult

calculateDuration(in) ==
    IF TruthyDate(in.startDate) /\ ~TruthyDate(in.endDate) /\ TruthyNumber(in.duration)
    THEN Triple(in.startDate,
                <<addWeeks(in.startDate[1], in.duration[1])>>, in.duration)
    ELSE IF ~TruthyDate(in.startDate) /\ TruthyDate(in.endDate) /\ TruthyNumber(in.duration)
    THEN Triple(<<subWeeks(in.endDate[1], in.duration[1])>>,
                in.endDate, in.duration)
    ELSE IF TruthyDate(in.startDate) /\ TruthyDate(in.endDate)
    THEN CheckRange(in)
    ELSE EmptyResult

\* one call of calculateDuration
Calculate ==
    /\ dpc = "call"
    /\ dresult' = calculateDuration(dinput)
    /\ dpc' = "done"
    /\ UNCHANGED <<dinput, tz, rvars, uvars>>

DurInit ==
    /\ payments = [w \in WorkPeriodIds |-> <<>>]
    /\ db = [w \in WorkPeriodIds |-> NoRow]
    /\ policy = "byDays"
    /\ serial = TRUE
    /\ ReconcilerIdle
    /\ tz \in TimeZones
    /\ dinput \in DurationInputs
    /\ dresult = NotCalled
    /\ dpc = "call"
    /\ UpdaterIdle

DurNext == Calculate

DurSpec == DurInit /\ [][DurNext]_vars

(***************************************************************************)
(* The duration updater, helper.updateDuration(original, data).            *)
(*                                                                         *)
(* data is an object: data.keys are the keys it holds (Object.keys), and   *)
(* a key may hold a value or null; a field without a key, or with a null,  *)
(* reads as <<>>.  original is a stored triple, any of its fields may be   *)
(* unset.                                                                  *)
(***************************************************************************)
FieldNames == {"startDate", "endDate", "duration"}
Fields == <<"startDate", "endDate", "duration">>

UpdateDates == {0, OneWeek, OneWeek + 3 * 24, 2 * OneWeek}

Originals ==
    [startDate : Opt(UpdateDates), endDate : Opt(UpdateDates),
     duration : Opt(Durations)]

Patches ==
    {d \in [keys : SUBSET FieldNames, startDate : Opt(UpdateDates),
            endDate : Opt(UpdateDates), duration : Opt(Durations)] :
        \A f \in FieldNames : f \notin d.keys => d[f] = Absent}

\* data[field] && ...
TruthyField(f, x) == IF f = "duration" THEN TruthyNumber(x) ELSE TruthyDate(x)

\* mutant: the comparison with the original is dropped
modifiedFields_AnyValue(original, d) ==
    LET Test(f) == TruthyField(f, d[f]) IN SelectSeq(Fields, Test)

\* lines 674-679: the fields of data with a value that is not the original's
modifiedFields(original, d) ==
    LET Test(f) == TruthyField(f, d[f]) /\ d[f] # original[f]
    IN SelectSeq(Fields, Test)

\* the three fields of an object, as calculateDuration destructures them
TripleOf(obj) ==
    [startDate |-> obj.startDate, endDate |-> obj.endDate,
     duration |-> obj.duration]

NoInput == [startDate |-> Absent, endDate |-> Absent, duration |-> Absent]

\* lines 686-693: the modified field from data, the other two from original
LoneFieldInput(original, d, field) ==
    [startDate |-> IF field = "startDate" THEN d.startDate
                   ELSE original.startDate,
     endDate |-> IF field = "endDate" THEN d.endDate ELSE original.endDate,
     duration |-> IF field = "duration" THEN d.duration
                  ELSE original.duration]

Returned(via, in, value) == [via |-> via, input |-> in, value |-> value]

\* mutant: the branch is chosen by the number of modified fields
updateDuration_CountsModified(original, d) ==
    LET mod == modifiedFields(original, d)
    IN IF Len(mod) = 0 THEN Returned("guard", NoInput, EmptyResult)
       ELSE IF Len(mod) = 1
       THEN Returned("single", LoneFieldInput(original, d, mod[1]),
                     calculateDuration(LoneFieldInput(original, d, mod[1])))
       ELSE Returned("multi", TripleOf(d), calculateDuration(TripleOf(d)))

\* lines 673-698.  via tells which return was taken: "guard" (line 681),
\* "single" (line 686), "multi" (line 696), "undefined" (line 698)
updateDuration(original, d) ==
    LET mod == modifiedFields(original, d)
        fieldsCount == Cardinality(d.keys)
    IN IF Len(mod) = 0 THEN Returned("guard", NoInput, EmptyResult)
       ELSE IF fieldsCount = 1
       THEN Returned("single", LoneFieldInput(original, d, mod[1]),
                     calculateDuration(LoneFieldInput(original, d, mod[1])))
       ELSE IF fieldsCount > 1
       THEN Returned("multi", TripleOf(d), calculateDuration(TripleOf(d)))
       ELSE Returned("undefined", NoInput, EmptyResult)

\* one call of updateDuration
Update ==
    /\ upc = "call"
    /\ uresult' = updateDuration(uoriginal, upatch)
    /\ upc' = "done"
    /\ UNCHANGED <<uoriginal, upatch, dinput, dresult, dpc, tz, rvars>>

UpdInit ==
    /\ payments = [w \in WorkPeriodIds |-> <<>>]
    /\ db = [w \in WorkPeriodIds |-> NoRow]
    /\ policy = "byDays"
    /\ serial = TRUE
    /\ ReconcilerIdle
    /\ DurationIdle
    /\ tz \in TimeZones
    /\ uoriginal \in Originals
    /\ upatch \in Patches
    /\ uresult = [via |-> "none"]
    /\ upc = "call"

UpdNext == Update

UpdSpec == UpdInit /\ [][UpdNext]_vars

(***************************************************************************)
(* Properties of the duration calculator (specification DurSpec).          *)
(***************************************************************************)
Supplied(x) == x # Absent
SuppliedCount(in) ==
    Cardinality({f \in {"startDate", "endDate", "duration"} : Supplied(in[f])})
Gap(in) == in.endDate[1] - in.startDate[1]
WholeWeeks(g) == g > 0 /\ g % (7 * 24) = 0

\* C6 as stated: every triple calculateDuration returns has its three
\* fields set, with endDate - startDate exactly duration * 7 days (as
\* line 647 measures a week) and duration a positive integer.
C6_DurationInvariant ==
    (dpc = "done" /\ dresult.kind \notin {"empty", "BadRequestError"}) =>
       /\ dresult.kind = "triple"
       /\ Supplied(dresult.startDate)
       /\ Supplied(dresult.endDate)
       /\ Supplied(dresult.duration)
       /\ dresult.duration[1] >= 1
       /\ dresult.endDate[1] - dresult.startDate[1]
             = dresult.duration[1] * 7 * 24

\* C7: from startDate and duration without endDate the result is the full
\* triple with endDate = startDate + duration weeks; from endDate and
\* duration without startDate it is the full triple with
\* startDate = endDate - duration weeks; the supplied fields are returned
\* as they were given.  A week is a week of the local calendar: the same
\* local time of day, seven days on.
C7_EndpointDerivation ==
    dpc = "done" =>
       /\ (Supplied(dinput.startDate) /\ ~Supplied(dinput.endDate)
             /\ Supplied(dinput.duration)) =>
             /\ dresult.kind = "triple"
             /\ dresult.startDate = dinput.startDate
             /\ dresult.duration = dinput.duration
             /\ Supplied(dresult.endDate)
             /\ Wall(dresult.endDate[1])
                   = Wall(dinput.startDate[1]) + dinput.duration[1] * 7 * 24
       /\ (~Supplied(dinput.startDate) /\ Supplied(dinput.endDate)
             /\ Supplied(dinput.duration)) =>
             /\ dresult.kind = "triple"
             /\ dresult.endDate = dinput.endDate
             /\ dresult.duration = dinput.duration
             /\ Supplied(dresult.startDate)
             /\ Wall(dresult.startDate[1])
                   = Wall(dinput.endDate[1]) - dinput.duration[1] * 7 * 24

\* an endDate three weeks after the startDate was derived across the
\* forward change of the clocks
C7_Witness ==
    /\ dpc = "done"
    /\ tz = "spring"
    /\ Supplied(dinput.startDate) /\ ~Supplied(dinput.endDate)
    /\ dinput.duration = <<3>>
    /\ dresult.kind = "triple"
    /\ dinput.startDate[1] < DstAt
    /\ dresult.endDate[1] > DstAt

AllSupplied(in) ==
    Supplied(in.startDate) /\ Supplied(in.endDate) /\ Supplied(in.duration)
Mismatch(in) == in.duration[1] * 7 * 24 # Gap(in)

\* C8 as stated: with the three fields supplied and a duration that differs
\* from the weeks between the dates, the call fails with the duration
\* conflict error.
C8_ConflictOnAnyMismatch ==
    (dpc = "done" /\ AllSupplied(dinput) /\ Mismatch(dinput)) =>
       /\ dresult.kind = "BadRequestError"
       /\ dresult.message = DurationMessage

\* C8 amended: such a call fails and returns no triple; the error is the
\* duration conflict when the gap between the dates is a positive whole
\* number of weeks and the range error otherwise; a triple returned for
\* three supplied fields keeps the supplied duration.
C8_ConflictOnMismatch ==
    (dpc = "done" /\ AllSupplied(dinput)) =>
       /\ Mismatch(dinput) =>
             /\ dresult.kind = "BadRequestError"
             /\ WholeWeeks(Gap(dinput)) => dresult.message = DurationMessage
             /\ ~WholeWeeks(Gap(dinput)) => dresult.message = EndDateMessage
       /\ dresult.kind = "triple" => dresult.duration = dinput.duration

\* a duration of 2 was rejected against dates one week apart
C8_Witness ==
    /\ dpc = "done"
    /\ AllSupplied(dinput)
    /\ dinput.duration = <<2>>
    /\ Gap(dinput) = 7 * 24
    /\ dresult.message = DurationMessage

\* C9: with both dates supplied, an endDate that is not after the startDate
\* or a gap that is no whole number of weeks fails with the range error,
\* whatever duration is supplied; no duration is derived from such a gap.
C9_RangeValidation ==
    (/\ dpc = "done"
     /\ Supplied(dinput.startDate) /\ Supplied(dinput.endDate)
     /\ ~WholeWeeks(Gap(dinput))) =>
       /\ dresult.kind = "BadRequestError"
       /\ dresult.message = EndDateMessage
       /\ dresult.duration = Absent

\* dates ten days apart, without a duration, were rejected
C9_Witness ==
    /\ dpc = "done"
    /\ Supplied(dinput.startDate) /\ Supplied(dinput.endDate)
    /\ ~Supplied(dinput.duration)
    /\ Gap(dinput) = 10 * 24
    /\ dresult.kind = "BadRequestError"

\* C10: the empty result is returned, and nothing is thrown, when fewer
\* than two of the three fields are supplied, and only then.
C10_InsufficientData ==
    dpc = "done" =>
       /\ SuppliedCount(dinput) < 2 => dresult = EmptyResult
       /\ dresult.kind = "empty" => SuppliedCount(dinput) < 2

\* a duration alone gave the empty result
C10_Witness ==
    /\ dpc = "done"
    /\ Supplied(dinput.duration)
    /\ SuppliedCount(dinput) = 1
    /\ dresult.kind = "empty"

(***************************************************************************)
(* Properties of the duration updater (specification UpdSpec).  A field    *)
(* of the patch differs from the original when its key holds a value (not  *)
(* null) and that value is not the original's.                             *)
(***************************************************************************)
Differs(f) == f \in upatch.keys /\ Supplied(upatch[f]) /\ upatch[f] # uoriginal[f]
ChangedFields == {f \in FieldNames : Differs(f)}
UsableCount(d) == SuppliedCount(TripleOf(d))

\* the original holds its three fields and they agree
CompleteConsistent(t) ==
    /\ AllSupplied(t)
    /\ t.endDate[1] - t.startDate[1] = t.duration[1] * 7 * 24

\* C11 as stated, for a complete and consistent original: a patch holding
\* one field, with a value that differs from the original, feeds the
\* calculator that field and the other two fields of the original, and the
\* returned triple has the patched field, exactly one recomputed field and
\* the other field as in the original.
C11_LoneFieldRecomputes ==
    (upc = "done" /\ CompleteConsistent(uoriginal)) =>
       \A f \in FieldNames :
          (upatch.keys = {f} /\ Differs(f)) =>
             /\ uresult.via = "single"
             /\ uresult.input = [TripleOf(uoriginal) EXCEPT ![f] = upatch[f]]
             /\ uresult.value.kind = "triple"
             /\ uresult.value[f] = upatch[f]
             /\ Cardinality({g \in FieldNames \ {f} :
                               uresult.value[g] # uoriginal[g]}) = 1

\* C12: a patch holding more than one key, with at least one differing
\* field, returns calculateDuration of the patch's own fields: from a
\* startDate and a duration without a usable endDate the endDate is
\* startDate + duration weeks (of the local calendar) whatever endDate the
\* original has, and so on for the other pairs; no field of the original
\* enters.
C12_MultiFieldFullReplace ==
    (upc = "done" /\ Cardinality(upatch.keys) > 1 /\ ChangedFields # {}) =>
       /\ uresult.via = "multi"
       /\ uresult.input = TripleOf(upatch)
       /\ uresult.value = calculateDuration(TripleOf(upatch))
       /\ (Supplied(upatch.startDate) /\ Supplied(upatch.duration)
             /\ ~Supplied(upatch.endDate)) =>
             /\ uresult.value.kind = "triple"
             /\ uresult.value.startDate = upatch.startDate
             /\ uresult.value.duration = upatch.duration
             /\ Wall(uresult.value.endDate[1])
                   = Wall(upatch.startDate[1]) + upatch.duration[1] * 7 * 24
       /\ (Supplied(upatch.endDate) /\ Supplied(upatch.duration)
             /\ ~Supplied(upatch.startDate)) =>
             /\ uresult.value.kind = "triple"
             /\ uresult.value.endDate = upatch.endDate
             /\ uresult.value.duration = upatch.duration
             /\ Wall(uresult.value.startDate[1])
                   = Wall(upatch.endDate[1]) - upatch.duration[1] * 7 * 24
       /\ UsableCount(upatch) < 2 => uresult.value = EmptyResult

\* a patch repeating the original's duration beside a new startDate has
\* replaced the original's endDate
C12_Witness ==
    /\ upc = "done"
    /\ upatch.keys = {"startDate", "duration"}
    /\ Supplied(upatch.duration) /\ upatch.duration = uoriginal.duration
    /\ Differs("startDate")
    /\ Supplied(uoriginal.endDate)
    /\ uresult.value.kind = "triple"
    /\ uresult.value.endDate # uoriginal.endDate

\* C13 as stated: in the multi-field branch a patch that leaves fewer than
\* two usable fields fails with a validation error instead of returning
\* the calculator's empty result.
C13_UnresolvableUpdateFails ==
    (/\ upc = "done"
     /\ Cardinality(upatch.keys) > 1
     /\ ChangedFields # {}
     /\ UsableCount(upatch) < 2) =>
       /\ uresult.value.kind = "BadRequestError"
       /\ uresult.value # EmptyResult

\* C14: updateDuration returns the empty result at its guard, with no call
\* of the calculator and no error, exactly when no field of the patch
\* differs from the original.
C14_NoChangeGuard ==
    upc = "done" =>
       /\ (ChangedFields = {}) <=> (uresult.via = "guard")
       /\ uresult.via = "guard" =>
             (uresult.value = EmptyResult /\ uresult.input = NoInput)

\* a patch that repeats two values of the original was answered at the guard
C14_Witness ==
    /\ upc = "done"
    /\ uresult.via = "guard"
    /\ Cardinality(upatch.keys) = 2
    /\ \A f \in upatch.keys : Supplied(upatch[f]) /\ upatch[f] = uoriginal[f]

Next ==
    \/ \E w \in WorkPeriodIds, rec \in PaymentRecords : PaymentCreate(w, rec)
    \/ \E w \in WorkPeriodIds, i \in 1..MaxPayments, rec \in PaymentRecords :
          PaymentUpdate(w, i, rec)
    \/ \E w \in WorkPeriodIds : Redeliver(w)
    \/ \E p \in Procs, w \in WorkPeriodIds : Load(p, w)
    \/ \E p \in Procs : ReconcileUnchanged(p)
    \/ \E p \in Procs : ReconcilePersist(p)
    \/ \E p \in Procs : PostEventBus(p)
    \/ \E p \in Procs : PostEventDispatch(p)

Spec == Init /\ [][Next]_vars

====
